---- MODULE Spec2Model ----
(***************************************************************************)
(* Model of build_idevice_ffi_xcframework.py: the sequential orchestration *)
(* of rustup, cargo, ar, vtool and lipo that assembles                      *)
(* idevice_ffi.xcframework.  External tools are the environment: each      *)
(* invocation ends in one of RunOutcomes, and what a tool prints is drawn  *)
(* from a bounded set of outputs.                                          *)
(***************************************************************************)
EXTENDS Integers, Sequences, FiniteSets, TLC

VARIABLES
    pc,                  \* position of the process in main()
    sdk,                 \* args.sdk ("" when --sdk is absent)
    exit_code,           \* -1 while running, 0 after a normal return, 1 after sys.exit(1)
    ffi_exists,          \* self.idevice_ffi_dir.exists()
    header_exists,       \* ffi/idevice.h exists
    getlogin_ok,         \* os.getlogin() returns (FALSE: it raises OSError)
    build_dir,           \* self.build_dir: subdirectory name -> its content
    bundle,              \* xcframework/idevice_ffi.xcframework
    todo,                \* the platform keys main() was asked to build, in order
    i,                   \* index into todo of the platform being built
    j,                   \* index of the rust target being built (build_platform)
    t,                   \* index into InstallTargets (prepare_build_environment)
    build_paths,         \* build_platform's / create_fat_library's build_paths
    platform_builds,     \* the dict platform -> build path, in insertion order
    k,                   \* index into platform_builds (create_xcframework's loop)
    detected_archs,      \* what get_lib_archs returned in the last iteration
    available_libraries, \* create_xcframework's available_libraries
    cmds,                \* every command handed to run_command, in order
    error,               \* type of the exception main() caught ("" when none)
    cargo_failed,        \* platform whose cargo invocation exited non-zero ("" when none)
    had_bundle,          \* whether idevice_ffi.xcframework existed when the run began
    fix_lib_path,        \* fix_tvos_platform_metadata's lib_path ("" outside the fixer)
    archive,             \* members of the static library at lib_path
    archive_in,          \* that archive as it was when the fixer was entered
    temp_dir,            \* the fixer's temp_objects directory
    object_files,        \* the fixer's object_files list
    m,                   \* index into object_files
    vtool_failed         \* names of the object files whose vtool call failed

vars == <<pc, sdk, exit_code, ffi_exists, header_exists, getlogin_ok, build_dir,
          bundle, todo, i, j, t, build_paths, platform_builds, k, detected_archs,
          available_libraries, cmds, error, cargo_failed, had_bundle, fix_lib_path, archive,
          archive_in, temp_dir,
          object_files, m, vtool_failed>>

(***************************************************************************)
(* Bounds of the model.                                                    *)
(***************************************************************************)
\* longest architecture list a lipo -info output names
MaxReported == 2
\* most members an input archive of the metadata fixer holds
MaxMembers == 3
\* most build paths handed to create_fat_library
MaxBuildPaths == 2

(***************************************************************************)
(* Strings: Python's str operations, computed on the characters.           *)
(***************************************************************************)
\* the characters that occur in the model's strings, in code point order
Alphabet == " +,-.0123456789:=ABCDEFGHIJKLMNOPQRSTUVWXYZ_abcdefghijklmnopqrstuvwxyz"

CharRank(c) == CHOOSE n \in 1..Len(Alphabet) : SubSeq(Alphabet, n, n) = c

\* the smallest and the largest member of a non-empty set of integers
Min(S) == CHOOSE n \in S : \A n2 \in S : n <= n2

Max(S) == CHOOSE n \in S : \A n2 \in S : n2 <= n

\* a < b for Python strings: lexicographic on code points
StrLess(a, b) ==
    LET common == IF Len(a) < Len(b) THEN Len(a) ELSE Len(b)
        diffs  == {n \in 1..common : SubSeq(a, n, n) # SubSeq(b, n, n)}
    IN IF diffs = {} THEN Len(a) < Len(b)
       ELSE CharRank(SubSeq(a, Min(diffs), Min(diffs)))
              < CharRank(SubSeq(b, Min(diffs), Min(diffs)))

\* sub in s
Contains(s, sub) ==
    \E n \in 1..(Len(s) - Len(sub) + 1) : SubSeq(s, n, n + Len(sub) - 1) = sub

\* s.split(sub)[-1] when sub is in s: what follows the last occurrence
AfterLast(s, sub) ==
    LET hits == {n \in 1..(Len(s) - Len(sub) + 1) : SubSeq(s, n, n + Len(sub) - 1) = sub}
    IN SubSeq(s, Max(hits) + Len(sub), Len(s))

\* s.strip(), the only whitespace of the model being the blank
Strip(s) ==
    LET inked == {n \in 1..Len(s) : SubSeq(s, n, n) # " "}
    IN IF inked = {} THEN "" ELSE SubSeq(s, Min(inked), Max(inked))

\* s.split(): the maximal blank-free runs of s, in order
SplitWs(s) ==
    LET inked  == {n \in 1..Len(s) : SubSeq(s, n, n) # " "}
        starts == {n \in inked : n - 1 \notin inked}
        EndOf(b) == Max({e \in b..Len(s) : \A n \in b..e : n \in inked})
        Nth(n) == CHOOSE b \in starts : Cardinality({b2 \in starts : b2 < b}) = n - 1
    IN [n \in 1..Cardinality(starts) |-> SubSeq(s, Nth(n), EndOf(Nth(n)))]

\* sep.join(parts)
Join(parts, sep) ==
    LET F[n \in 0..Len(parts)] ==
            IF n = 0 THEN ""
            ELSE IF n = 1 THEN parts[1]
            ELSE F[n - 1] \o sep \o parts[n]
    IN F[Len(parts)]

\* s.endswith(suffix)
EndsWith(s, suffix) ==
    /\ Len(s) >= Len(suffix)
    /\ SubSeq(s, Len(s) - Len(suffix) + 1, Len(s)) = suffix

\* sorted(list of str): stable, ascending
Sorted(s) ==
    LET Before(a, b) == StrLess(s[a], s[b]) \/ (s[a] = s[b] /\ a < b)
        Place(a) == Cardinality({b \in 1..Len(s) : Before(b, a)}) + 1
    IN [p \in 1..Len(s) |-> s[CHOOSE a \in 1..Len(s) : Place(a) = p]]

\* str.lower() on the SDK names the model passes
Lower(s) ==
    LET up == "ABCDEFGHIJKLMNOPQRSTUVWXYZ"
        lo == "abcdefghijklmnopqrstuvwxyz"
        F[n \in 0..Len(s)] ==
            IF n = 0 THEN ""
            ELSE LET c    == SubSeq(s, n, n)
                     hits == {u \in 1..26 : SubSeq(up, u, u) = c}
                 IN F[n - 1] \o (IF hits = {} THEN c
                                ELSE LET u == CHOOSE u \in hits : TRUE
                                     IN SubSeq(lo, u, u))
    IN F[Len(s)]

Range(s) == {s[n] : n \in 1..Len(s)}

(***************************************************************************)
(* self.platforms (lines 17-60), a dict: PlatformKeys is its key order.    *)
(***************************************************************************)
PlatformKeys ==
    <<"iphoneos", "iphonesimulator", "appletvos", "appletvsimulator", "macosx", "maccatalyst">>

platforms ==
    [p \in Range(PlatformKeys) |->
        CASE p = "iphoneos" ->
               [rust_target |-> "aarch64-apple-ios", sdk |-> "iphoneos", arch |-> "arm64",
                min_version |-> "12.0", platform_name |-> "iOS"]
          [] p = "iphonesimulator" ->
               [rust_targets |-> <<"aarch64-apple-ios-sim", "x86_64-apple-ios">>,
                sdk |-> "iphonesimulator", archs |-> <<"arm64", "x86_64">>,
                min_version |-> "12.0", platform_name |-> "iOS Simulator"]
          [] p = "appletvos" ->
               [rust_target |-> "aarch64-apple-tvos", sdk |-> "appletvos", arch |-> "arm64",
                min_version |-> "12.0", platform_name |-> "tvOS"]
          [] p = "appletvsimulator" ->
               [rust_targets |-> <<"aarch64-apple-tvos-sim", "x86_64-apple-tvos">>,
                sdk |-> "appletvsimulator", archs |-> <<"arm64", "x86_64">>,
                min_version |-> "12.0", platform_name |-> "tvOS Simulator"]
          [] p = "macosx" ->
               [rust_targets |-> <<"aarch64-apple-darwin", "x86_64-apple-darwin">>,
                sdk |-> "macosx", archs |-> <<"arm64", "x86_64">>,
                min_version |-> "12.0", platform_name |-> "macOS"]
          [] p = "maccatalyst" ->
               [rust_targets |-> <<"aarch64-apple-ios-macabi", "x86_64-apple-ios-macabi">>,
                sdk |-> "macosx", archs |-> <<"arm64", "x86_64">>,
                min_version |-> "13.1", platform_name |-> "Mac Catalyst"]]

\* 'rust_targets' in platform_config (line 300)
IsMulti(platform) == "rust_targets" \in DOMAIN platforms[platform]

\* the rust targets build_platform builds for a platform, in order (lines 300-312)
RustTargets(platform) ==
    IF IsMulti(platform) THEN platforms[platform].rust_targets
    ELSE <<platforms[platform].rust_target>>

\* the architecture label of the n-th of them (lines 303, 311)
ArchOf(platform, n) ==
    IF IsMulti(platform) THEN platforms[platform].archs[n] ELSE platforms[platform].arch

\* the target triples prepare_build_environment installs (lines 128-132)
InstallTargets ==
    <<"aarch64-apple-ios", "aarch64-apple-ios-sim", "x86_64-apple-ios",
      "aarch64-apple-darwin", "x86_64-apple-darwin",
      "aarch64-apple-ios-macabi", "x86_64-apple-ios-macabi">>

\* build_active_platform's platform_map (lines 465-472)
platform_map == [s \in Range(PlatformKeys) |-> s]

(***************************************************************************)
(* run_command (lines 62-80): subprocess.run with check=True returns, or   *)
(* raises CalledProcessError on a non-zero exit ("nonzero"), or raises an  *)
(* OSError such as FileNotFoundError when the program cannot be started    *)
(* ("oserror").  run_command logs and re-raises CalledProcessError only.   *)
(***************************************************************************)
RunOutcomes == {"ok", "nonzero", "oserror"}

\* run_command swallows nothing: whatever subprocess.run raises leaves it (line 80)
RaisesMissingReraise(o) == o = "oserror"

\* whether run_command raises on an outcome
Raises(o) == o # "ok"

\* the type of the exception run_command raises
ExceptionOf(o) == IF o = "nonzero" THEN "CalledProcessError" ELSE "FileNotFoundError"

LibName == "libidevice_ffi.a"

\* build_path / "libidevice_ffi.a"
LibPath(dir) == dir \o "/" \o LibName

RustSrcCmd == <<"rustup", "component", "add", "rust-src", "--toolchain", "nightly">>

TargetAddCmd(target) == <<"rustup", "target", "add", target>>

\* cargo_cmd (lines 179-195)
CargoCmd(rust_target) ==
    IF Contains(rust_target, "apple-tvos")
    THEN <<"cargo", "+nightly", "build", "-Zbuild-std=std,panic_abort", "--release",
           "--target", rust_target, "--features", "full,ring", "--no-default-features">>
    ELSE <<"cargo", "build", "--release", "--target", rust_target,
           "--features", "full,ring", "--no-default-features">>

\* a mis-assembled lipo_cmd that names the first member library only
LipoCreateCmdFirstOnly(lib_paths, fat_lib) ==
    <<"lipo", "-create", lib_paths[1], "-output", fat_lib>>

\* lipo_cmd (line 289)
LipoCreateCmd(lib_paths, fat_lib) ==
    <<"lipo", "-create">> \o lib_paths \o <<"-output", fat_lib>>

LipoInfoCmd(lib_path) == <<"lipo", "-info", lib_path>>

ArExtractCmd(lib_path) == <<"ar", "x", lib_path>>

VtoolCmd(obj) == <<"vtool", "-set-build-version", "3", "12.0", "12.0", "-replace", obj>>

ArCreateCmd(lib_path, objs) == <<"ar", "rcs", lib_path>> \o objs

(***************************************************************************)
(* get_lib_archs (lines 258-270): lipo -info and the parse of what it      *)
(* prints.                                                                 *)
(***************************************************************************)
\* the architecture names lipo may print
Archs == {"arm64", "x86_64", "arm64e"}

\* the lists of distinct architecture names of at most MaxReported names
ArchLists ==
    UNION {{l \in [1..n -> Archs] : \A a, b \in 1..n : a # b => l[a] # l[b]} :
           n \in 1..MaxReported}

\* lipo -info on a fat file
FatOutput(archs) ==
    "Architectures in the fat file: " \o LibName \o " are: " \o Join(archs, " ") \o " "

\* lipo -info on a thin file
ThinOutput(arch) == "Non-fat file: " \o LibName \o " is architecture: " \o arch

\* what lipo -info may print: a fat listing, a thin listing, or nothing
LipoOutputs ==
    {FatOutput(l) : l \in {l2 \in ArchLists : Len(l2) >= 2}}
        \cup {ThinOutput(a) : a \in Archs} \cup {""}

\* how a lipo -info invocation may end
LipoResults ==
    {[outcome |-> "ok", stdout |-> o] : o \in LipoOutputs}
        \cup {[outcome |-> o, stdout |-> ""] : o \in RunOutcomes \ {"ok"}}

\* the parse of lines 262-268
ParseLipoInfo(output) ==
    LET out == Strip(output)
    IN IF Contains(out, "are:") THEN SplitWs(Strip(AfterLast(out, "are:")))
       ELSE IF Contains(out, "architecture:") THEN <<Strip(AfterLast(out, "architecture:"))>>
       ELSE <<>>

\* the parse, tabulated over the outputs of the model
ParsedLipoInfo == {[stdout |-> o, archs |-> ParseLipoInfo(o)] : o \in LipoOutputs}

\* get_lib_archs: any exception gives the empty list (lines 269-270)
GetLibArchs(r) ==
    IF Raises(r.outcome) THEN <<>>
    ELSE (CHOOSE e \in ParsedLipoInfo : e.stdout = r.stdout).archs

(***************************************************************************)
(* create_xcframework's identifier chains (lines 338-406).                 *)
(***************************************************************************)
\* the platforms whose branch calls get_lib_archs (lines 345, 364, 378, 392)
Introspected(platform) ==
    platform \in {"appletvsimulator", "iphonesimulator", "macosx", "maccatalyst"}

\* get_lib_archs(lib_path) or platform_config.get('archs', [])
DetectedOrConfig(platform, detected) ==
    IF detected # <<>> THEN detected
    ELSE IF "archs" \in DOMAIN platforms[platform] THEN platforms[platform].archs
    ELSE <<>>

\* sorted() left out
SortedNoop(s) == s

\* sorted(), tabulated over the lists get_lib_archs and the configuration give
SortedTable ==
    {[list |-> l, sorted |-> Sorted(l)] : l \in ArchLists \cup {<<>>, <<"arm64", "x86_64">>}}

\* sorted_archs = sorted(detected_archs) (lines 346, 365, 379, 393)
SortedArchs(s) == (CHOOSE e \in SortedTable : e.list = s).sorted

\* lines 347-354
TvosSimulatorIdentifier(sorted_archs) ==
    IF sorted_archs = <<"arm64", "x86_64">> THEN "tvos-arm64_x86_64-simulator"
    ELSE IF sorted_archs = <<"arm64">> THEN "tvos-arm64-simulator"
    ELSE IF sorted_archs = <<"x86_64">> THEN "tvos-x86_64-simulator"
    ELSE "tvos-simulator"

\* lines 366-373
IosSimulatorIdentifier(sorted_archs) ==
    IF sorted_archs = <<"arm64", "x86_64">> THEN "ios-arm64_x86_64-simulator"
    ELSE IF sorted_archs = <<"arm64">> THEN "ios-arm64-simulator"
    ELSE IF sorted_archs = <<"x86_64">> THEN "ios-x86_64-simulator"
    ELSE "ios-simulator"

\* lines 380-387
MacosIdentifier(sorted_archs) ==
    IF sorted_archs = <<"arm64", "x86_64">> THEN "macos-arm64_x86_64"
    ELSE IF sorted_archs = <<"arm64">> THEN "macos-arm64"
    ELSE IF sorted_archs = <<"x86_64">> THEN "macos-x86_64"
    ELSE "macos"

\* the Mac Catalyst chain written as a copy of the simulator's
MacCatalystIdentifierCopied(sorted_archs) == IosSimulatorIdentifier(sorted_archs)

\* lines 394-401
MacCatalystIdentifier(sorted_archs) ==
    IF sorted_archs = <<"arm64", "x86_64">> THEN "ios-arm64_x86_64-maccatalyst"
    ELSE IF sorted_archs = <<"arm64">> THEN "ios-arm64-maccatalyst"
    ELSE IF sorted_archs = <<"x86_64">> THEN "ios-x86_64-maccatalyst"
    ELSE "ios-maccatalyst"

\* library_identifier, by platform
LibraryIdentifier(platform, sorted_archs) ==
    CASE platform = "appletvos" -> "tvos-arm64"
      [] platform = "appletvsimulator" -> TvosSimulatorIdentifier(sorted_archs)
      [] platform = "iphoneos" -> "ios-arm64"
      [] platform = "iphonesimulator" -> IosSimulatorIdentifier(sorted_archs)
      [] platform = "macosx" -> MacosIdentifier(sorted_archs)
      [] platform = "maccatalyst" -> MacCatalystIdentifier(sorted_archs)

\* supported_platform, by platform
SupportedPlatform(platform) ==
    CASE platform \in {"appletvos", "appletvsimulator"} -> "tvos"
      [] platform \in {"iphoneos", "iphonesimulator", "maccatalyst"} -> "ios"
      [] platform = "macosx" -> "macos"

\* platform_variant, by platform ("" for None)
PlatformVariant(platform) ==
    CASE platform \in {"appletvsimulator", "iphonesimulator"} -> "simulator"
      [] platform = "maccatalyst" -> "maccatalyst"
      [] OTHER -> ""

\* supported_architectures, by platform
SupportedArchitectures(platform, sorted_archs) ==
    IF platform \in {"appletvos", "iphoneos"} THEN <<"arm64">> ELSE sorted_archs

\* library_entry (lines 421-431)
LibraryEntry(library_identifier, supported_architectures, supported_platform, platform_variant) ==
    LET entry == [BinaryPath |-> LibName,
                  HeadersPath |-> "Headers",
                  LibraryIdentifier |-> library_identifier,
                  LibraryPath |-> LibName,
                  SupportedArchitectures |-> supported_architectures,
                  SupportedPlatform |-> supported_platform]
    IN IF platform_variant # ""
       THEN [f \in DOMAIN entry \cup {"SupportedPlatformVariant"} |->
                IF f = "SupportedPlatformVariant" THEN platform_variant ELSE entry[f]]
       ELSE entry

(***************************************************************************)
(* The file system, as far as the program reads and writes it.             *)
(***************************************************************************)
\* a directory without entries
EmptyDir == [n \in {} |-> n]

\* dir with entry name set to val
With(dir, name, val) == [n \in DOMAIN dir \cup {name} |-> IF n = name THEN val ELSE dir[n]]

\* mkdir(exist_ok=True) of a build output directory
MkBuildSubdir(dir, name) ==
    IF name \in DOMAIN dir THEN dir ELSE With(dir, name, [lib |-> FALSE, include |-> FALSE])

NoPlist == [written |-> FALSE, gen |-> "", content |-> <<>>]

\* no directory at the bundle path
NoBundle == [exists |-> FALSE, dirs |-> EmptyDir, plist |-> NoPlist]

\* a rmtree that leaves the tree in place
RemoveTreeKeeps(b) == b

\* shutil.rmtree of the bundle (lines 96, 320)
RemoveTree(b) == NoBundle

\* platform_dir.mkdir(), the copy of the library and of the headers (lines 409-418)
MakePlatformDir(b, name, headers) ==
    [b EXCEPT !.dirs = With(b.dirs, name, [gen |-> "new", lib |-> TRUE, headers |-> headers])]

\* info_plist_content, written to Info.plist (lines 436-446)
WritePlist(b, libraries) ==
    [b EXCEPT !.plist = [written |-> TRUE, gen |-> "new",
                         content |-> [AvailableLibraries |-> libraries,
                                      CFBundlePackageType |-> "XFWK",
                                      XCFrameworkFormatVersion |-> "1.0"]]]

\* platform_builds[platform] = build_path on an insertion-ordered dict
Put(d, platform, build_path) ==
    IF \E n \in 1..Len(d) : d[n].platform = platform
    THEN [n \in 1..Len(d) |->
            IF d[n].platform = platform THEN [platform |-> platform, build_path |-> build_path]
            ELSE d[n]]
    ELSE Append(d, [platform |-> platform, build_path |-> build_path])

(***************************************************************************)
(* main() (lines 484-502) and the methods it calls.                        *)
(***************************************************************************)
envVars == <<sdk, ffi_exists, header_exists, getlogin_ok, had_bundle>>

fixVars == <<fix_lib_path, archive, archive_in, temp_dir, object_files, m, vtool_failed>>

asmVars == <<k, detected_archs, available_libraries>>

\* main's except clause: print, sys.exit(1) (lines 500-502)
Fail(e) ==
    /\ pc' = "exit"
    /\ exit_code' = 1
    /\ error' = e

\* prepare_build_environment, lines 84-98: the checks and the cleaning
PrepareClean ==
    /\ pc = "start"
    /\ IF ~ffi_exists
       THEN /\ Fail("FileNotFoundError")
            /\ UNCHANGED <<build_dir, bundle>>
       ELSE /\ build_dir' = EmptyDir
            /\ bundle' = IF bundle.exists THEN RemoveTree(bundle) ELSE bundle
            /\ pc' = "rust_src"
            /\ UNCHANGED <<exit_code, error>>
    /\ UNCHANGED <<envVars, fixVars, asmVars, todo, i, j, t, build_paths,
                   platform_builds, cmds, cargo_failed>>

\* prepare_build_environment, lines 100-114: the rust-src component.
\* os.getlogin() is evaluated while env is built, outside run_command;
\* the except clause catches CalledProcessError only.
InstallRustSrc ==
    /\ pc = "rust_src"
    /\ IF ~getlogin_ok
       THEN /\ Fail("OSError")
            /\ UNCHANGED <<cmds, t>>
       ELSE \E o \in RunOutcomes :
            /\ cmds' = Append(cmds, RustSrcCmd)
            /\ IF Raises(o) /\ ExceptionOf(o) # "CalledProcessError"
               THEN /\ Fail(ExceptionOf(o))
                    /\ UNCHANGED t
               ELSE /\ pc' = "targets"
                    /\ t' = 1
                    /\ UNCHANGED <<exit_code, error>>
    /\ UNCHANGED <<envVars, fixVars, asmVars, todo, i, j, build_paths,
                   platform_builds, build_dir, bundle, cargo_failed>>

\* prepare_build_environment, lines 116-142: one turn of the loop over the
\* targets.  The inner except catches CalledProcessError and the loop goes
\* on; any other exception reaches the outer except, which ends the loop.
InstallTarget ==
    /\ pc = "targets"
    /\ \E o \in RunOutcomes :
        /\ cmds' = Append(cmds, TargetAddCmd(InstallTargets[t]))
        /\ IF Raises(o) /\ ExceptionOf(o) # "CalledProcessError"
           THEN /\ pc' = "dispatch"
                /\ UNCHANGED t
           ELSE IF t < Len(InstallTargets)
           THEN /\ t' = t + 1
                /\ UNCHANGED pc
           ELSE /\ pc' = "dispatch"
                /\ UNCHANGED t
    /\ UNCHANGED <<envVars, fixVars, asmVars, todo, i, j, build_paths, platform_builds,
                   build_dir, bundle, cargo_failed, exit_code, error>>

\* main, lines 495-498, with build_active_platform's lookup (lines 465-476)
\* and build_all_platforms' iteration order (line 456)
Dispatch ==
    /\ pc = "dispatch"
    /\ IF sdk # ""
       THEN IF Lower(sdk) \in DOMAIN platform_map
            THEN /\ todo' = <<platform_map[Lower(sdk)]>>
                 /\ pc' = "build"
                 /\ UNCHANGED <<exit_code, error>>
            ELSE /\ Fail("ValueError")
                 /\ UNCHANGED todo
       ELSE /\ todo' = PlatformKeys
            /\ pc' = "build"
            /\ UNCHANGED <<exit_code, error>>
    /\ i' = 1
    /\ j' = 1
    /\ UNCHANGED <<envVars, fixVars, asmVars, t, build_paths, platform_builds,
                   build_dir, bundle, cmds, cargo_failed>>

\* the caller's loop after build_platform returned: platform_builds[platform]
\* is set by the caller (lines 458-459, 479-482)
Advance ==
    /\ j' = 1
    /\ IF i < Len(todo)
       THEN /\ i' = i + 1
            /\ pc' = "build"
       ELSE /\ pc' = "xcframework"
            /\ UNCHANGED i

\* build_for_target (lines 144-218) for target j of platform todo[i], and
\* build_platform's handling of what it returns (lines 298-312)
BuildForTarget ==
    /\ pc = "build"
    /\ LET platform     == todo[i]
           rust_target  == RustTargets(platform)[j]
           arch         == ArchOf(platform, j)
           build_subdir == platform \o "-" \o arch
           made         == MkBuildSubdir(build_dir, build_subdir)
           paths        == IF j = 1 THEN <<>> ELSE build_paths
       IN \E o \in RunOutcomes, lib_found \in BOOLEAN :
            /\ cmds' = Append(cmds, CargoCmd(rust_target))
            /\ cargo_failed' = IF o = "nonzero" THEN platform ELSE cargo_failed
            /\ IF Raises(o)
               THEN /\ Fail(ExceptionOf(o))
                    /\ build_dir' = made
                    /\ UNCHANGED <<i, j, build_paths, platform_builds>>
               ELSE IF ~lib_found
               THEN /\ Fail("FileNotFoundError")
                    /\ build_dir' = made
                    /\ UNCHANGED <<i, j, build_paths, platform_builds>>
               ELSE /\ build_dir' = With(made, build_subdir,
                                         [lib |-> TRUE,
                                          include |-> header_exists \/ made[build_subdir].include])
                    /\ UNCHANGED <<exit_code, error>>
                    /\ IF IsMulti(platform)
                       THEN /\ build_paths' = Append(paths, build_subdir)
                            /\ UNCHANGED <<i, platform_builds>>
                            /\ IF j < Len(RustTargets(platform))
                               THEN /\ j' = j + 1
                                    /\ UNCHANGED pc
                               ELSE /\ pc' = "fat"
                                    /\ UNCHANGED j
                       ELSE /\ build_paths' = paths
                            /\ platform_builds' = Put(platform_builds, platform, build_subdir)
                            /\ Advance
    /\ UNCHANGED <<envVars, fixVars, asmVars, todo, t, bundle>>

\* create_fat_library (lines 272-293) on build_paths, for platform todo[i]
CreateFatLibrary ==
    /\ pc = "fat"
    /\ LET platform == todo[i]
       IN IF Len(build_paths) = 1
          THEN /\ platform_builds' = Put(platform_builds, platform, build_paths[1])
               /\ Advance
               /\ UNCHANGED <<build_dir, cmds, exit_code, error>>
          ELSE LET fat_dir     == platform \o "-fat"
                   first_build == build_paths[1]
                   made        == MkBuildSubdir(build_dir, fat_dir)
                   lib_paths   == [n \in 1..Len(build_paths) |-> LibPath(build_paths[n])]
                   fat_lib     == LibPath(fat_dir)
               IN \E o \in RunOutcomes :
                    /\ cmds' = Append(cmds, LipoCreateCmd(lib_paths, fat_lib))
                    /\ build_dir' =
                         With(made, fat_dir,
                              [lib |-> made[fat_dir].lib \/ o = "ok",
                               include |-> made[fat_dir].include \/ build_dir[first_build].include])
                    /\ IF Raises(o)
                       THEN /\ Fail(ExceptionOf(o))
                            /\ UNCHANGED <<i, j, platform_builds>>
                       ELSE /\ platform_builds' = Put(platform_builds, platform, fat_dir)
                            /\ Advance
                            /\ UNCHANGED <<exit_code, error>>
    /\ UNCHANGED <<envVars, fixVars, asmVars, todo, t, build_paths, bundle, cargo_failed>>

\* create_xcframework, lines 316-327: the bundle directory is removed and
\* made again; mkdir(parents=True) raises when the path still exists
CreateXcframeworkBegin ==
    /\ pc = "xcframework"
    /\ LET cleaned == IF bundle.exists THEN RemoveTree(bundle) ELSE bundle
       IN IF cleaned.exists
          THEN /\ Fail("FileExistsError")
               /\ bundle' = cleaned
               /\ UNCHANGED <<k, available_libraries>>
          ELSE /\ bundle' = [cleaned EXCEPT !.exists = TRUE]
               /\ available_libraries' = <<>>
               /\ k' = 1
               /\ pc' = "assemble"
               /\ UNCHANGED <<exit_code, error>>
    /\ UNCHANGED <<envVars, fixVars, detected_archs, todo, i, j, t, build_paths,
                   platform_builds, build_dir, cmds, cargo_failed>>

\* create_xcframework, lines 329-433: the loop's turn for platform_builds[k]
AssemblePlatform ==
    /\ pc = "assemble"
    /\ k <= Len(platform_builds)
    /\ LET platform   == platform_builds[k].platform
           build_path == platform_builds[k].build_path
       IN IF ~(build_path \in DOMAIN build_dir /\ build_dir[build_path].lib)
          THEN /\ k' = k + 1
               /\ UNCHANGED <<pc, exit_code, error, bundle, available_libraries,
                              detected_archs, cmds>>
          ELSE IF platform \notin DOMAIN platforms
          THEN /\ Fail("KeyError")
               /\ UNCHANGED <<k, bundle, available_libraries, detected_archs, cmds>>
          ELSE \E r \in (IF Introspected(platform) THEN LipoResults
                         ELSE {[outcome |-> "ok", stdout |-> ""]}) :
               LET detected    == IF Introspected(platform) THEN GetLibArchs(r) ELSE <<>>
                   sorted_archs == SortedArchs(DetectedOrConfig(platform, detected))
                   library_identifier == LibraryIdentifier(platform, sorted_archs)
               IN /\ cmds' = IF Introspected(platform)
                             THEN Append(cmds, LipoInfoCmd(LibPath(build_path)))
                             ELSE cmds
                  /\ detected_archs' = detected
                  /\ IF library_identifier \in DOMAIN bundle.dirs
                     THEN /\ Fail("FileExistsError")
                          /\ UNCHANGED <<k, bundle, available_libraries>>
                     ELSE /\ bundle' = MakePlatformDir(bundle, library_identifier,
                                                       build_dir[build_path].include)
                          /\ available_libraries' =
                               Append(available_libraries,
                                      LibraryEntry(library_identifier,
                                                   SupportedArchitectures(platform, sorted_archs),
                                                   SupportedPlatform(platform),
                                                   PlatformVariant(platform)))
                          /\ k' = k + 1
                          /\ UNCHANGED <<pc, exit_code, error>>
    /\ UNCHANGED <<envVars, fixVars, todo, i, j, t, build_paths, platform_builds,
                   build_dir, cargo_failed>>

\* create_xcframework, lines 435-450, and main's normal return
WriteInfoPlist ==
    /\ pc = "assemble"
    /\ k > Len(platform_builds)
    /\ bundle' = WritePlist(bundle, available_libraries)
    /\ pc' = "done"
    /\ exit_code' = 0
    /\ UNCHANGED <<envVars, fixVars, asmVars, todo, i, j, t, build_paths, platform_builds,
                   build_dir, cmds, error, cargo_failed>>

(***************************************************************************)
(* fix_tvos_platform_metadata (lines 220-256).  No method of the class     *)
(* calls it: its steps are actions of FixerSpec only.                      *)
(***************************************************************************)
\* no temp_objects directory
NoTemp == [exists |-> FALSE, files |-> EmptyDir]

\* the n-th object member's name
ObjName(n) == "obj" \o SubSeq("123456789", n, n) \o ".o"

\* the names of the members an archive may hold: objects and one other member
MemberNames == [n \in 1..(MaxMembers + 1) |-> IF n <= MaxMembers THEN ObjName(n) ELSE "lib.rmeta"]

\* the platform codes of a build-version load command: 2 iOS, 3 tvOS
PlatformCodes == {2, 3}

\* ar x: every member becomes a file of its name
ArExtract(arch) ==
    [name \in {arch[n].name : n \in 1..Len(arch)} |->
        LET n == CHOOSE n \in 1..Len(arch) :
                   /\ arch[n].name = name
                   /\ \A n2 \in 1..Len(arch) : arch[n2].name = name => n2 <= n
        IN arch[n].platform]

\* temp_dir.glob("*.o"): the matching names, as a set
GlobObjects(files) == {name \in DOMAIN files : EndsWith(name, ".o")}

\* the orders in which glob may list a set of names
Orders(names) ==
    {l \in [1..Cardinality(names) -> names] :
        \A a, b \in 1..Cardinality(names) : a # b => l[a] # l[b]}

\* an archive made from the listed objects alone
ArReplaceFresh(arch, objs, files) ==
    [n \in 1..Len(objs) |-> [name |-> objs[n], platform |-> files[objs[n]]]]

\* ar rcs on the existing archive: a member of a listed name is replaced in
\* place, a listed file that is no member is appended, the others stay
ArReplace(arch, objs, files) ==
    LET names == {arch[n].name : n \in 1..Len(arch)}
        added == SelectSeq(objs, LAMBDA o : o \notin names)
    IN [n \in 1..Len(arch) |->
           IF arch[n].name \in Range(objs)
           THEN [name |-> arch[n].name, platform |-> files[arch[n].name]]
           ELSE arch[n]]
       \o [n \in 1..Len(added) |-> [name |-> added[n], platform |-> files[added[n]]]]

\* the finally clause (lines 253-256)
FixCleanup == temp_dir' = NoTemp

\* lines 222-228: temp_objects is removed if present and made
FixBegin ==
    /\ pc = "fix"
    /\ temp_dir' = [exists |-> TRUE, files |-> EmptyDir]
    /\ pc' = "fix_extract"
    /\ UNCHANGED <<envVars, asmVars, fix_lib_path, archive, archive_in, object_files, m,
                   vtool_failed, todo, i, j, t, build_paths, platform_builds, build_dir,
                   bundle, cmds, cargo_failed, exit_code, error>>

\* lines 231-235: ar x, then the glob
FixExtract ==
    /\ pc = "fix_extract"
    /\ \E o \in RunOutcomes :
        /\ cmds' = Append(cmds, ArExtractCmd(fix_lib_path))
        /\ IF Raises(o)
           THEN /\ FixCleanup
                /\ Fail(ExceptionOf(o))
                /\ UNCHANGED <<object_files, m>>
           ELSE /\ temp_dir' = [temp_dir EXCEPT !.files = ArExtract(archive)]
                /\ object_files' \in Orders(GlobObjects(ArExtract(archive)))
                /\ m' = 1
                /\ pc' = "fix_vtool"
                /\ UNCHANGED <<exit_code, error>>
    /\ UNCHANGED <<envVars, asmVars, fix_lib_path, archive, archive_in, vtool_failed, todo, i, j,
                   t, build_paths, platform_builds, build_dir, bundle, cargo_failed>>

\* lines 237-247: the loop's turn for object_files[m]
FixVtool ==
    /\ pc = "fix_vtool"
    /\ m <= Len(object_files)
    /\ \E o \in RunOutcomes :
        /\ cmds' = Append(cmds, VtoolCmd(object_files[m]))
        /\ vtool_failed' = IF o = "ok" THEN vtool_failed
                           ELSE vtool_failed \cup {object_files[m]}
        /\ IF Raises(o) /\ ExceptionOf(o) # "CalledProcessError"
           THEN /\ FixCleanup
                /\ Fail(ExceptionOf(o))
                /\ UNCHANGED m
           ELSE /\ temp_dir' = IF Raises(o) THEN temp_dir
                               ELSE [temp_dir EXCEPT !.files[object_files[m]] = 3]
                /\ m' = m + 1
                /\ UNCHANGED <<pc, exit_code, error>>
    /\ UNCHANGED <<envVars, asmVars, fix_lib_path, archive, archive_in, object_files, todo, i, j,
                   t, build_paths, platform_builds, build_dir, bundle, cargo_failed>>

\* lines 249-256: ar rcs over object_files, then the finally clause
FixRecreate ==
    /\ pc = "fix_vtool"
    /\ m > Len(object_files)
    /\ \E o \in RunOutcomes :
        /\ cmds' = Append(cmds, ArCreateCmd(fix_lib_path, object_files))
        /\ FixCleanup
        /\ IF Raises(o)
           THEN /\ Fail(ExceptionOf(o))
                /\ UNCHANGED archive
           ELSE /\ archive' = ArReplace(archive, object_files, temp_dir.files)
                /\ pc' = "fix_done"
                /\ UNCHANGED <<exit_code, error>>
    /\ UNCHANGED <<envVars, asmVars, fix_lib_path, archive_in, object_files, m, vtool_failed,
                   todo, i, j, t, build_paths, platform_builds, build_dir, bundle,
                   cargo_failed>>

(***************************************************************************)
(* Initial states and specifications.                                      *)
(***************************************************************************)
\* a bundle left by an earlier run that completed
StaleBundle ==
    [exists |-> TRUE,
     dirs   |-> With(With(EmptyDir, "ios-arm64", [gen |-> "old", lib |-> TRUE, headers |-> TRUE]),
                     "watchos-arm64", [gen |-> "old", lib |-> TRUE, headers |-> TRUE]),
     plist  |-> [written |-> TRUE, gen |-> "old", content |-> <<>>]]

\* a bundle left by an earlier run that failed before Info.plist
PartialBundle ==
    [exists |-> TRUE,
     dirs   |-> With(EmptyDir, "macos-arm64", [gen |-> "old", lib |-> TRUE, headers |-> FALSE]),
     plist  |-> NoPlist]

PriorBundles == {NoBundle, StaleBundle, PartialBundle}

\* a build directory left by an earlier run
StaleBuildDir == With(EmptyDir, "iphonesimulator-fat", [lib |-> TRUE, include |-> TRUE])

\* the values of --sdk the model passes ("" when the option is absent)
SdkArgs == {""} \cup Range(PlatformKeys) \cup {"IPHONEOS", "watchos"}

\* the fixer is not running
FixerIdle ==
    /\ fix_lib_path = ""
    /\ archive = <<>>
    /\ archive_in = <<>>
    /\ temp_dir = NoTemp
    /\ object_files = <<>>
    /\ m = 0
    /\ vtool_failed = {}

\* nothing of main() has run
MainIdle ==
    /\ exit_code = -1
    /\ error = ""
    /\ cargo_failed = ""
    /\ cmds = <<>>
    /\ t = 0
    /\ j = 1
    /\ k = 0
    /\ detected_archs = <<>>
    /\ available_libraries = <<>>

\* the process starts main()
Init ==
    /\ pc = "start"
    /\ sdk \in SdkArgs
    /\ ffi_exists \in BOOLEAN
    /\ header_exists \in BOOLEAN
    /\ getlogin_ok \in BOOLEAN
    /\ build_dir \in {EmptyDir, StaleBuildDir}
    /\ bundle \in PriorBundles
    /\ had_bundle = bundle.exists
    /\ todo = <<>>
    /\ i = 0
    /\ build_paths = <<>>
    /\ platform_builds = <<>>
    /\ MainIdle
    /\ FixerIdle

Next ==
    \/ PrepareClean
    \/ InstallRustSrc
    \/ InstallTarget
    \/ Dispatch
    \/ BuildForTarget
    \/ CreateFatLibrary
    \/ CreateXcframeworkBegin
    \/ AssemblePlatform
    \/ WriteInfoPlist

Spec == Init /\ [][Next]_vars

\* the keys an input mapping of create_xcframework may hold: the six
\* platforms and one key self.platforms does not have
InputKeys == PlatformKeys \o <<"watchos">>

\* the Build Output build_platform returns for a platform
BuildOutputOf(platform) ==
    IF platform \in DOMAIN platforms /\ IsMulti(platform) THEN platform \o "-fat"
    ELSE platform \o "-arm64"

\* the subsequence of InputKeys on the keys of chosen, as a dict
MappingOf(chosen) ==
    LET keys == SelectSeq(InputKeys, LAMBDA p : p \in chosen)
    IN [n \in 1..Len(keys) |-> [platform |-> keys[n], build_path |-> BuildOutputOf(keys[n])]]

\* create_xcframework is called on a mapping of Build Outputs
AssemblerInit ==
    /\ pc = "xcframework"
    /\ sdk = ""
    /\ ffi_exists = TRUE
    /\ header_exists \in BOOLEAN
    /\ getlogin_ok = TRUE
    /\ \E chosen \in SUBSET Range(InputKeys) :
        /\ platform_builds = MappingOf(chosen)
        /\ build_dir = [d \in {BuildOutputOf(p) : p \in chosen} |->
                           [lib |-> TRUE, include |-> header_exists]]
        /\ todo = SelectSeq(InputKeys, LAMBDA p : p \in chosen)
    /\ i = Len(todo)
    /\ bundle \in {NoBundle, PartialBundle}
    /\ had_bundle = bundle.exists
    /\ build_paths = <<>>
    /\ MainIdle
    /\ FixerIdle

AssemblerNext ==
    \/ CreateXcframeworkBegin
    \/ AssemblePlatform
    \/ WriteInfoPlist

AssemblerSpec == AssemblerInit /\ [][AssemblerNext]_vars

\* the Build Outputs build_for_target makes for a platform
TargetOutputs(platform) == {platform \o "-arm64", platform \o "-x86_64"}

\* create_fat_library is called on one to MaxBuildPaths Build Outputs
CombinerInit ==
    /\ pc = "fat"
    /\ sdk = ""
    /\ ffi_exists = TRUE
    /\ header_exists \in BOOLEAN
    /\ getlogin_ok = TRUE
    /\ \E platform \in Range(PlatformKeys) :
        /\ todo = <<platform>>
        /\ build_paths \in UNION {[1..n -> TargetOutputs(platform)] : n \in 1..MaxBuildPaths}
        /\ build_dir \in [TargetOutputs(platform) -> [lib : {TRUE}, include : BOOLEAN]]
    /\ i = 1
    /\ bundle = NoBundle
    /\ had_bundle = FALSE
    /\ platform_builds = <<>>
    /\ MainIdle
    /\ FixerIdle

CombinerNext == CreateFatLibrary

CombinerSpec == CombinerInit /\ [][CombinerNext]_vars

\* the archives the fixer is given: members of distinct names, in the
\* order of MemberNames; the member that is no object carries no platform
Archives ==
    UNION {{[n \in 1..Len(SelectSeq(MemberNames, LAMBDA x : x \in chosen)) |->
                [name |-> SelectSeq(MemberNames, LAMBDA x : x \in chosen)[n],
                 platform |-> IF EndsWith(SelectSeq(MemberNames, LAMBDA x : x \in chosen)[n], ".o")
                              THEN code[SelectSeq(MemberNames, LAMBDA x : x \in chosen)[n]]
                              ELSE 0]] :
            code \in [chosen -> PlatformCodes]} :
           chosen \in {c \in SUBSET Range(MemberNames) : Cardinality(c) <= MaxMembers}}

\* fix_tvos_platform_metadata is called on the library of a tvOS build
FixerInit ==
    /\ pc = "fix"
    /\ sdk = ""
    /\ ffi_exists = TRUE
    /\ header_exists = TRUE
    /\ getlogin_ok = TRUE
    /\ fix_lib_path \in {LibPath("appletvos-arm64"), LibPath("appletvsimulator-x86_64")}
    /\ archive \in Archives
    /\ archive_in = archive
    /\ temp_dir \in {NoTemp, [exists |-> TRUE, files |-> With(EmptyDir, "old.o", 2)]}
    /\ object_files = <<>>
    /\ m = 0
    /\ vtool_failed = {}
    /\ build_dir = EmptyDir
    /\ bundle = NoBundle
    /\ had_bundle = FALSE
    /\ todo = <<>>
    /\ i = 0
    /\ build_paths = <<>>
    /\ platform_builds = <<>>
    /\ MainIdle

FixerNext ==
    \/ FixBegin
    \/ FixExtract
    \/ FixVtool
    \/ FixRecreate

FixerSpec == FixerInit /\ [][FixerNext]_vars

(***************************************************************************)
(* The claims.                                                             *)
(***************************************************************************)
\* position of a platform key in the iteration order
KeyIndex(platform) == CHOOSE n \in 1..Len(PlatformKeys) : PlatformKeys[n] = platform

IsCargo(cmd) == cmd[1] = "cargo"

\* the platform a cargo command builds for, read from its --target argument
PlatformOfCargo(cmd) ==
    LET at     == CHOOSE n \in 1..Len(cmd) : cmd[n] = "--target"
        target == cmd[at + 1]
    IN CHOOSE p \in Range(PlatformKeys) : target \in Range(RustTargets(p))

\* the LibraryIdentifier values of the manifest entries, in order
Identifiers ==
    [n \in 1..Len(available_libraries) |-> available_libraries[n].LibraryIdentifier]

\* C1: once a cargo invocation for a platform has exited non-zero, the
\* process has exited with status 1, the bundle path holds no Info.plist,
\* the failed invocation is the last command run, and no cargo invocation
\* was made for a platform later in the iteration order.
C1_BuildFailureAborts ==
    cargo_failed # "" =>
        /\ pc = "exit"
        /\ exit_code = 1
        /\ error = "CalledProcessError"
        /\ ~bundle.plist.written
        /\ IsCargo(cmds[Len(cmds)])
        /\ PlatformOfCargo(cmds[Len(cmds)]) = cargo_failed
        /\ \A n \in 1..Len(cmds) :
              IsCargo(cmds[n]) => KeyIndex(PlatformOfCargo(cmds[n])) <= KeyIndex(cargo_failed)

\* a full build whose appletvos compilation failed, after the two iOS
\* platforms were built
C1_Witness ==
    /\ cargo_failed = "appletvos"
    /\ sdk = ""
    /\ pc = "exit"
    /\ Len(platform_builds) = 2

\* C2: while and after create_xcframework assembles the bundle, the
\* LibraryIdentifier values of the entries are pairwise distinct and each
\* names a subdirectory of the bundle; no call ends on a directory that
\* exists already.
C2_IdentifiersDistinctOnDisk ==
    /\ error # "FileExistsError"
    /\ pc \in {"assemble", "done"} =>
          /\ \A a, b \in 1..Len(Identifiers) : a # b => Identifiers[a] # Identifiers[b]
          /\ \A a \in 1..Len(Identifiers) : Identifiers[a] \in DOMAIN bundle.dirs

\* a completed bundle of all six platforms
C2_Witness ==
    /\ pc = "done"
    /\ Len(available_libraries) = 6
    /\ Cardinality(DOMAIN bundle.dirs) = 6

\* SupportedPlatform and SupportedPlatformVariant of a platform's entry in
\* the XCFramework convention ("" for no variant)
ConventionOf(platform) ==
    CASE platform = "iphoneos" -> <<"ios", "">>
      [] platform = "iphonesimulator" -> <<"ios", "simulator">>
      [] platform = "appletvos" -> <<"tvos", "">>
      [] platform = "appletvsimulator" -> <<"tvos", "simulator">>
      [] platform = "macosx" -> <<"macos", "">>
      [] platform = "maccatalyst" -> <<"ios", "maccatalyst">>

VariantOf(entry) ==
    IF "SupportedPlatformVariant" \in DOMAIN entry THEN entry.SupportedPlatformVariant ELSE ""

IsAscending(s) == \A a, b \in 1..Len(s) : a < b => ~StrLess(s[b], s[a])

\* C3: when create_xcframework has completed on Build Outputs of the six
\* platform keys, the manifest holds one entry per input platform, in
\* input order and of that platform's kind, the bundle holds exactly the
\* subdirectories the entries name, one each, and every
\* SupportedArchitectures list is ascending.
C3_OneEntryPerPlatformSorted ==
    pc = "done" =>
        /\ Len(available_libraries) = Len(platform_builds)
        /\ \A n \in 1..Len(available_libraries) :
              /\ <<available_libraries[n].SupportedPlatform, VariantOf(available_libraries[n])>>
                    = ConventionOf(platform_builds[n].platform)
              /\ IsAscending(available_libraries[n].SupportedArchitectures)
        /\ DOMAIN bundle.dirs = Range(Identifiers)
        /\ Cardinality(DOMAIN bundle.dirs) = Len(available_libraries)

\* a completed bundle of all six platforms whose last library lipo listed
\* in descending order
C3_Witness ==
    /\ pc = "done"
    /\ Len(platform_builds) = 6
    /\ detected_archs = <<"x86_64", "arm64">>
    /\ available_libraries[6].SupportedArchitectures = <<"arm64", "x86_64">>

\* the identifier the naming convention gives an entry
ConventionIdentifier(entry) ==
    entry.SupportedPlatform \o "-" \o Join(entry.SupportedArchitectures, "_")
        \o (IF VariantOf(entry) # "" THEN "-" \o VariantOf(entry) ELSE "")

\* C4: every entry's LibraryIdentifier is its SupportedPlatform, "-", its
\* SupportedArchitectures joined by "_", and "-" with its variant if it
\* has one.
C4_IdentifierMatchesEntry ==
    \A n \in 1..Len(available_libraries) :
        available_libraries[n].LibraryIdentifier = ConventionIdentifier(available_libraries[n])

\* C5: once prepare_build_environment has cleaned, the bundle path holds
\* nothing of an earlier run; when the run completes, the bundle holds
\* Info.plist with this run's entries and exactly the subdirectories those
\* entries name.
C5_BundleReplaced ==
    /\ (ffi_exists /\ pc # "start") =>
          /\ \A d \in DOMAIN bundle.dirs : bundle.dirs[d].gen = "new"
          /\ bundle.plist.gen # "old"
    /\ pc = "done" =>
          /\ bundle.exists
          /\ bundle.plist.written
          /\ bundle.plist.content.AvailableLibraries = available_libraries
          /\ DOMAIN bundle.dirs = Range(Identifiers)

\* a completed single-platform run over a bundle an earlier run left, with
\* this run's ios-arm64 in place of the old one and watchos-arm64 gone
C5_Witness ==
    /\ pc = "done"
    /\ had_bundle
    /\ sdk = "iphoneos"
    /\ DOMAIN bundle.dirs = {"ios-arm64"}

\* C6: whatever fix_tvos_platform_metadata does, the archive keeps its
\* members, by number, name and order; a member whose vtool call failed
\* keeps the platform code it had; a non-zero exit of vtool never ends the
\* call; when the call returns, every object whose vtool call succeeded
\* carries platform code 3.
C6_FixerKeepsMembers ==
    /\ Len(archive) = Len(archive_in)
    /\ \A n \in 1..Len(archive) :
          /\ archive[n].name = archive_in[n].name
          /\ archive[n].name \in vtool_failed => archive[n].platform = archive_in[n].platform
    /\ (pc = "exit" /\ error = "CalledProcessError") => cmds[Len(cmds)][1] = "ar"
    /\ pc = "fix_done" =>
          \A n \in 1..Len(archive) :
              (EndsWith(archive[n].name, ".o") /\ archive[n].name \notin vtool_failed)
                  => archive[n].platform = 3

\* a returned call on an archive of three members, one of which failed its
\* rewrite and one of which was rewritten from platform 2 to 3
C6_Witness ==
    /\ pc = "fix_done"
    /\ Len(archive) = 3
    /\ vtool_failed # {}
    /\ \E n \in 1..Len(archive) : archive[n].platform = 3 /\ archive_in[n].platform = 2
    /\ \E n \in 1..Len(archive) : archive[n].name \in vtool_failed /\ archive[n].platform = 2

\* C7: in a completed bundle every entry's subdirectory holds the library
\* and a Headers directory.
C7_EntriesHaveLibAndHeaders ==
    pc = "done" =>
        \A n \in 1..Len(available_libraries) :
            /\ Identifiers[n] \in DOMAIN bundle.dirs
            /\ bundle.dirs[Identifiers[n]].lib
            /\ bundle.dirs[Identifiers[n]].headers

\* the eight installation commands of prepare_build_environment
InstallCmds == {RustSrcCmd} \cup {TargetAddCmd(InstallTargets[n]) : n \in 1..Len(InstallTargets)}

\* C8: once an installation was attempted and the preparer is left, all
\* eight installations were attempted and the run is in the build phase or
\* beyond, not ended by the preparer.
C8_InstallFailuresNonFatal ==
    (cmds # <<>> /\ pc \notin {"start", "rust_src", "targets"}) =>
        /\ InstallCmds \subseteq Range(cmds)
        /\ ~(pc = "exit" /\ todo = <<>> /\ error # "ValueError")

\* the number of positions of cmd that hold word
Occurrences(cmd, word) == Cardinality({n \in 1..Len(cmd) : cmd[n] = word})

\* C9: after create_fat_library, with one input no command was run, no
\* directory was made and the input itself is what is returned; with more
\* inputs exactly one command was run, lipo -create, naming every input's
\* library and one -output path, and what a successful call returns is a
\* directory that is none of the inputs and holds the combined library.
C9_FatLibraryCombiner ==
    pc # "fat" =>
        IF Len(build_paths) = 1
        THEN /\ cmds = <<>>
             /\ error = ""
             /\ platform_builds = <<[platform |-> todo[1], build_path |-> build_paths[1]]>>
             /\ DOMAIN build_dir = TargetOutputs(todo[1])
        ELSE /\ Len(cmds) = 1
             /\ cmds[1][1] = "lipo"
             /\ cmds[1][2] = "-create"
             /\ \A n \in 1..Len(build_paths) : LibPath(build_paths[n]) \in Range(cmds[1])
             /\ Occurrences(cmds[1], "-output") = 1
             /\ cmds[1][Len(cmds[1]) - 1] = "-output"
             /\ Len(cmds[1]) = Len(build_paths) + 4
             /\ error = "" =>
                   /\ Len(platform_builds) = 1
                   /\ platform_builds[1].build_path \notin Range(build_paths)
                   /\ cmds[1][Len(cmds[1])] = LibPath(platform_builds[1].build_path)
                   /\ build_dir[platform_builds[1].build_path].lib

\* a successful call on the two Build Outputs of a platform
C9_Witness ==
    /\ pc # "fat"
    /\ Len(build_paths) = 2
    /\ build_paths[1] # build_paths[2]
    /\ error = ""
    /\ Len(platform_builds) = 1

\* the libraries build_for_target made for a platform, with their targets
TargetLibs(platform) ==
    {<<RustTargets(platform)[n], LibPath(platform \o "-" \o ArchOf(platform, n))>> :
        n \in 1..Len(RustTargets(platform))}

\* C10: every library of a TV platform that build_platform has returned
\* was given to the metadata fixer after cargo built it and before any
\* lipo command named it.
C10_FixerAppliedToTvLibs ==
    \A n \in 1..Len(platform_builds) :
        platform_builds[n].platform \in {"appletvos", "appletvsimulator"} =>
            \A tl \in TargetLibs(platform_builds[n].platform) :
                \E a, b \in 1..Len(cmds) :
                    /\ a < b
                    /\ cmds[a] = CargoCmd(tl[1])
                    /\ cmds[b] = ArExtractCmd(tl[2])
                    /\ \A c \in 1..b : ~(cmds[c][1] = "lipo" /\ tl[2] \in Range(cmds[c]))

\* C11: the entry create_xcframework appended last records, as its
\* SupportedArchitectures, the architectures that a lipo -info command run
\* on that entry's library reported (sorted), and that report is not
\* empty: the list never comes from self.platforms or a literal alone.
C11_ArchsFromIntrospection ==
    (pc \in {"assemble", "done"} /\ Len(available_libraries) > 0) =>
        LET n == Len(available_libraries)
        IN /\ LipoInfoCmd(LibPath(platform_builds[n].build_path)) \in Range(cmds)
           /\ detected_archs # <<>>
           /\ available_libraries[n].SupportedArchitectures = SortedArchs(detected_archs)

\* the input keys self.platforms has
KnownKeys == {n \in 1..Len(platform_builds) : platform_builds[n].platform \in DOMAIN platforms}

\* C12: once the loop of create_xcframework has reached a key that
\* self.platforms does not have, no error is raised and the call is not
\* left by an exception; when the call completes, Info.plist is written and
\* the manifest holds exactly one entry per known key.
C12_UnknownKeySkipped ==
    \A n \in 1..Len(platform_builds) :
        (platform_builds[n].platform \notin DOMAIN platforms /\ k >= n) =>
            /\ error = ""
            /\ pc # "exit"
            /\ pc = "done" =>
                  /\ bundle.plist.written
                  /\ Len(available_libraries) = Cardinality(KnownKeys)

====
